---- MODULE Spec2Model ----
(***************************************************************************)
(* Authentication, token lifecycle and permission evaluation of the        *)
(* starter kit: AuthService, PermissionService, RedisService, UserService, *)
(* the authenticate / Permission middlewares and the AuthController.       *)
(*                                                                         *)
(* Time is the clock in whole seconds, floor(Date.now() / 1000), which is  *)
(* the resolution of the iat and exp fields of a JSON web token.  The      *)
(* token lifetimes are scaled to a few clock units.                        *)
(***************************************************************************)
EXTENDS Integers, Sequences, FiniteSets, Bags, TLC

\* ---------------------------------------------------------------- bounds
MaxTime == 2
MaxIssued == 4

\* ------------------------------------------------- configuration (scaled)
AccessTTL == 2
RefreshTTL == 3
RefreshStoreTTL == 3

\* ------------------------------------------------------------ value sets
UserIds == {"u1", "u2", "u3", "u4"}
SeededIds == {"u1", "u2"}
RoleNames == {"super_admin", "admin", "user", "employee", "moderator"}
SUPER_ADMIN_ROLE == "super_admin"
Passwords == {"Secret123", "Other456"}
\* MODULE_PERMISSIONS, the modules user and report
Pairs == {<<"user", a>> : a \in {"create", "read", "update", "delete"}}
           \cup {<<"report", a>> : a \in {"read", "export"}}
PairLists == {<<>>} \cup {<<p>> : p \in Pairs}
                \cup {<<p, q>> : p \in Pairs, q \in Pairs}

\* String.prototype.toLowerCase over the e-mail inputs of the model
toLowerCase(e) ==
  CASE e = "Jo@X.com" -> "jo@x.com"
    [] e = "AL@x.com" -> "al@x.com"
    [] OTHER -> e

\* bcrypt.hash: the digest of pw, a value no plaintext equals
hashPassword(pw) == <<"bcrypt", pw>>
\* the string pw itself, as a value of the password column
PlainText(pw) == <<"plain", pw>>
\* bcrypt.compare
comparePassword(pw, stored) == stored = hashPassword(pw)

\* a row of the users table; present is FALSE for an id that has no row,
\* used is TRUE once the id has been generated
NoUser == [present |-> FALSE, used |-> FALSE, email |-> "",
           password |-> PlainText(""), role |-> "", isActive |-> FALSE]
Deleted == [NoUser EXCEPT !.used = TRUE]

\* a JSON web token: payload, iat, exp and the HS256 signature
NullTok == [userId |-> "", email |-> "", role |-> "", iat |-> 0, exp |-> 0,
            sig |-> "none"]
\* jwt.sign(payload, secret, {expiresIn: ttl}) at clock second t
sign(payload, ttl, t) ==
  [userId |-> payload.userId, email |-> payload.email, role |-> payload.role,
   iat |-> t, exp |-> t + ttl, sig |-> "ok"]
\* a token that decodes but was not signed with the server secret
ForgedTok == [userId |-> "u2", email |-> "jo@x.com", role |-> "super_admin",
              iat |-> 0, exp |-> MaxTime + 5, sig |-> "bad"]

generateTokens(payload, t) ==
  [accessToken |-> sign(payload, AccessTTL, t),
   refreshToken |-> sign(payload, RefreshTTL, t)]

NoEntry == [token |-> NullTok, expiresAt |-> 0]

VARIABLES
  now,            \* clock, seconds
  users,          \* Credential Store: id -> user row
  grants,         \* RoleGrant rows: <<role, resource, action>>
  redisClient,    \* config/redis.ts redisClient !== null
  redisReachable, \* commands on the client succeed
  refreshStore,   \* app:auth:refresh_token:<id> -> value, expiry
  blacklist,      \* app:auth:blacklist:<token> entries
  issued,         \* tokens the server has handed to clients
  resp,           \* the last response
  loggedOut,      \* history: tokens a logout completed for, cache reachable
  priorRefresh,   \* history: refresh tokens current at such a logout, of
                  \* subjects that have not logged in since
  superseded,     \* history: tokens refresh succeeded for, cache reachable
  regPending,     \* register calls between their checks and their insert
  regLog,         \* history: the register call that completed last
  permissionRows, \* Permission rows: name, resource, action
  grantRows,      \* RoleGrant rows as stored: bag of <<role, permission name>>
  refreshPending, \* refresh calls between their checks and their store
  lastCall,       \* history: the service call that completed last
  userCache,      \* app:user:user:<id> -> the cached user
  listCache,      \* app:cache:users:list:<hash> -> the cached page
  getPending,     \* getUserById calls between their read and their write
  rateLimit,      \* app:ratelimit:ratelimit:<identifier> -> count, expiry
  boot,           \* start-up: database connect, initRedis, listen, exit
  sessions,       \* app:session:<id> -> session data
  sessPending     \* updateSessionAccess calls between get and set

vars == <<now, users, grants, redisClient, redisReachable, refreshStore,
          blacklist, issued, resp, loggedOut, priorRefresh, superseded,
          regPending, regLog, permissionRows, grantRows, refreshPending,
          lastCall, userCache, listCache, getPending, rateLimit, boot,
          sessions, sessPending>>

storeVars == <<users, grants>>
cacheVars == <<redisClient, redisReachable, refreshStore, blacklist>>
permVars == <<permissionRows, grantRows>>
callVars == <<refreshPending, lastCall>>
histVars == <<loggedOut, priorRefresh, superseded>>
regVars == <<regPending, regLog>>
ucVars == <<userCache, listCache, getPending>>
sessVars == <<sessions, sessPending>>
auxVars == <<ucVars, rateLimit, boot, sessVars>>

Procs == {1, 2}
\* a register call: what it was given, what held when its checks ran, and
\* how it ended
NoCall == [active |-> FALSE, service |-> FALSE, http |-> FALSE, email |-> "",
           password |-> "", roleName |-> "", requester |-> "",
           held |-> FALSE, bearer |-> FALSE, taken |-> FALSE,
           takenAtEnd |-> FALSE, role |-> "", error |-> "", status |-> 0,
           assigned |-> "", created |-> FALSE]

\* a response; user is req.user.userId, "" when req.user is undefined
Response(op, status, message, user) ==
  [op |-> op, status |-> status, message |-> message, user |-> user]

\* ------------------------------------------------------- seeded contents
\* tests/helpers/testDb.ts: admin gets user:create and user:read
TestSeedGrants == {<<"admin", "user", "create">>, <<"admin", "user", "read">>}
\* the pairs of MODULE_PERMISSIONS the model carries
SeededPairs == Pairs \cup {<<"settings", "read">>, <<"permission", "read">>,
                            <<"permission", "create">>}
\* prisma/seed.ts with ROLE_PERMISSIONS, over the modelled pairs
ROLE_PERMISSIONS ==
  {<<"admin", p[1], p[2]>> : p \in SeededPairs}
    \cup {<<"super_admin", p[1], p[2]>> : p \in SeededPairs}
    \cup {<<"user", "user", "read">>,
          <<"employee", "user", "read">>, <<"employee", "report", "read">>,
          <<"moderator", "user", "read">>, <<"moderator", "user", "update">>,
          <<"moderator", "report", "read">>,
          <<"moderator", "settings", "read">>}

\* the name the seed and PermissionService give the permission of a pair
PermissionName(resource, action) == resource \o ":" \o action
PermissionRow(name, resource, action) ==
  [name |-> name, resource |-> resource, action |-> action]
NoRefresh == [active |-> FALSE, token |-> NullTok, stored |-> NullTok,
              overlap |-> FALSE]
NoLast == [op |-> "none"]

\* no entry under a user cache key; seen is history: the user's row at the
\* time the entry was written
NoCached == [hit |-> FALSE, email |-> "", role |-> "", isActive |-> FALSE,
             seen |-> <<>>]
\* no getUserById call in flight
NoGet == [active |-> FALSE, id |-> "", user |-> NoCached, afterDelete |-> FALSE]
\* the identifiers the rate limiter keys its counters by
Clients == {"ip1", "ip2"}
\* the controllers with a class-level RateLimit
RateControllers == {"auth", "users"}
\* no counter under a rate limit key; sent is history: the requests of the
\* window the limiter of each controller has counted
NoCount == [count |-> 0, expires |-> FALSE,
            sent |-> [k \in RateControllers |-> 0]]
\* the process after start-up: database connected, server listening
Running == [db |-> "connected", redis |-> "connected", listening |-> TRUE,
            exited |-> FALSE]
\* the process when index.ts begins: prisma.$connect() and initRedis() are
\* under way
Starting == [db |-> "pending", redis |-> "pending", listening |-> FALSE,
             exited |-> FALSE]
SessionIds == {"s1", "s2"}
NoSession == [present |-> FALSE, userId |-> "", lastAccessed |-> 0]
NoSessCall == [active |-> FALSE, id |-> "", session |-> NoSession]

SeedUser(email, pw, role) ==
  [present |-> TRUE, used |-> TRUE, email |-> email,
   password |-> hashPassword(pw), role |-> role, isActive |-> TRUE]

\* the state of a seeded installation: u1 has role r, the grants are g, the
\* Redis client is connected or null as c says, Redis is reachable as up
\* says, the process is in start-up phase b
InitBase(r, g, c, up, b) ==
  /\ now = 0
  /\ users = [u \in UserIds |->
                CASE u = "u1" -> SeedUser("root@x.com", "Secret123", r)
                  [] u = "u2" -> SeedUser("jo@x.com", "Secret123", "user")
                  [] OTHER -> NoUser]
  /\ grants = g
  /\ redisClient = c
  /\ redisReachable = up
  /\ refreshStore = [u \in UserIds |-> NoEntry]
  /\ blacklist = {}
  /\ issued = {}
  /\ resp = Response("none", 0, "", "")
  /\ loggedOut = {}
  /\ priorRefresh = {}
  /\ superseded = {}
  /\ regPending = [p \in Procs |-> NoCall]
  /\ regLog = NoCall
  /\ permissionRows =
       {PermissionRow(PermissionName(q[1], q[2]), q[1], q[2]) :
          q \in SeededPairs}
  /\ grantRows = [k \in {<<x[1], PermissionName(x[2], x[3])>> : x \in g}
                    |-> 1]
  /\ refreshPending = [p \in Procs |-> NoRefresh]
  /\ lastCall = NoLast
  /\ userCache = [u \in UserIds |-> NoCached]
  /\ listCache = {}
  /\ getPending = [p \in Procs |-> NoGet]
  /\ rateLimit = [k \in Clients |-> NoCount]
  /\ boot = b
  /\ sessions = [i \in SessionIds |-> NoSession]
  /\ sessPending = [p \in Procs |-> NoSessCall]

\* the state after start-up and seeding
InitWith(r, g, c) == InitBase(r, g, c, TRUE, Running)

Init ==
  \E r \in {"super_admin", "admin"}, g \in {TestSeedGrants, ROLE_PERMISSIONS} :
    InitWith(r, g, TRUE)

\* ------------------------------------------------------------ RedisService
\* checkRedis passes and the command does not throw
CacheOk == redisClient /\ redisReachable

\* AuthService.storeRefreshToken: RedisService.set with the 7 day expiry
storeRefreshToken(store, userId, token) ==
  IF CacheOk
    THEN [store EXCEPT ![userId] =
            [token |-> token, expiresAt |-> now + RefreshStoreTTL]]
    ELSE store

\* AuthService.getRefreshToken: the stored token, NullTok for null
getRefreshToken(userId) ==
  IF CacheOk /\ userId \in UserIds /\ now < refreshStore[userId].expiresAt
    THEN refreshStore[userId].token
    ELSE NullTok

\* AuthService.removeRefreshToken
removeRefreshToken(store, userId) ==
  IF CacheOk THEN [store EXCEPT ![userId] = NoEntry] ELSE store

\* ------------------------------------------------------------ CacheService
\* the row as the select of UserService returns it, without the password
Selected(row) ==
  [hit |-> TRUE, email |-> row.email, role |-> row.role,
   isActive |-> row.isActive, seen |-> <<>>]

\* CacheService.cacheUser(userId, userData, 600); the clock of the model
\* stays below the expiry of ten minutes
cacheUser(cache, userId, userData) ==
  IF CacheOk
    THEN [cache EXCEPT ![userId] = [userData EXCEPT !.seen = users'[userId]]]
    ELSE cache

\* CacheService.getCachedUser, NoCached for null
getCachedUser(userId) == IF CacheOk THEN userCache[userId] ELSE NoCached

\* CacheService.invalidateUser
invalidateUser(cache, userId) ==
  IF CacheOk THEN [cache EXCEPT ![userId] = NoCached] ELSE cache

\* CacheService.invalidateUserList: delPattern('users:list:*')
invalidateUserList(cache) == IF CacheOk THEN {} ELSE cache

\* the variables the user service leaves alone
ucRest == <<getPending, rateLimit, boot, sessVars>>

\* blacklistToken adding a second to the expiry it is given
blacklistToken_late(bl, token, expiry) ==
  IF CacheOk
    THEN {e \in bl : e.token # token}
           \cup {[token |-> token, expiresAt |-> now + expiry + 1]}
    ELSE bl

\* AuthService.blacklistToken: SETEX blacklist:<token> expiry '1'
blacklistToken(bl, token, expiry) ==
  IF CacheOk
    THEN {e \in bl : e.token # token}
           \cup {[token |-> token, expiresAt |-> now + expiry]}
    ELSE bl

\* isTokenBlacklisted answering TRUE when the cache cannot be asked
isTokenBlacklisted_closed(token) ==
  ~CacheOk \/ \E e \in blacklist : e.token = token /\ now < e.expiresAt

\* AuthService.isTokenBlacklisted: RedisService.exists
isTokenBlacklisted(token) ==
  CacheOk /\ \E e \in blacklist : e.token = token /\ now < e.expiresAt

\* ------------------------------------------------------------- Token Codec
\* AuthService.verifyToken: TRUE when jwt.verify returns the payload
verifyToken(token) == token.sig = "ok" /\ now < token.exp

Payload(token) ==
  [userId |-> token.userId, email |-> token.email, role |-> token.role]

\* ------------------------------------------------------- PermissionService
\* a bypass test against the wrong role name
isSuperAdmin_admin(userId) ==
  /\ userId \in UserIds
  /\ users[userId].present
  /\ users[userId].role = "admin"

isSuperAdmin(userId) ==
  /\ userId \in UserIds
  /\ users[userId].present
  /\ users[userId].role = SUPER_ADMIN_ROLE

hasPermission(userId, resource, action) ==
  IF isSuperAdmin(userId) THEN TRUE
  ELSE IF ~(userId \in UserIds /\ users[userId].present) THEN FALSE
  ELSE \E g \in grants :
         g[1] = users[userId].role /\ g[2] = resource /\ g[3] = action

hasAnyPermission(userId, permissions) ==
  IF isSuperAdmin(userId) THEN TRUE
  ELSE \E i \in 1..Len(permissions) :
         hasPermission(userId, permissions[i][1], permissions[i][2])

\* hasAllPermissions returning at the first pair that is granted
hasAllPermissions_first(userId, permissions) ==
  IF isSuperAdmin(userId) THEN TRUE
  ELSE \E i \in 1..Len(permissions) :
         hasPermission(userId, permissions[i][1], permissions[i][2])

hasAllPermissions(userId, permissions) ==
  IF isSuperAdmin(userId) THEN TRUE
  ELSE \A i \in 1..Len(permissions) :
         hasPermission(userId, permissions[i][1], permissions[i][2])

\* isSuperAdmin with its try/catch: dbOk is FALSE when findUnique throws
isSuperAdminTry(userId, dbOk) == dbOk /\ isSuperAdmin(userId)

\* hasPermission answering TRUE from its catch block
hasPermissionTry_open(userId, resource, action, dbOk1, dbOk2) ==
  IF isSuperAdminTry(userId, dbOk1) THEN TRUE
  ELSE IF ~dbOk2 THEN TRUE
  ELSE IF ~(userId \in UserIds /\ users[userId].present) THEN FALSE
  ELSE IF users[userId].role = "" THEN FALSE
  ELSE \E g \in grants :
         g[1] = users[userId].role /\ g[2] = resource /\ g[3] = action

\* hasPermission with its try/catch: dbOk1 is the lookup of isSuperAdmin,
\* dbOk2 the lookup of the subject with its role and permissions
hasPermissionTry(userId, resource, action, dbOk1, dbOk2) ==
  IF isSuperAdminTry(userId, dbOk1) THEN TRUE
  ELSE IF ~dbOk2 THEN FALSE
  ELSE IF ~(userId \in UserIds /\ users[userId].present) THEN FALSE
  ELSE IF users[userId].role = "" THEN FALSE
  ELSE \E g \in grants :
         g[1] = users[userId].role /\ g[2] = resource /\ g[3] = action

\* what the store holds about a subject when a check is made
StoreFacts(userId) ==
  [exists |-> userId \in UserIds /\ users[userId].present,
   role |-> IF userId \in UserIds /\ users[userId].present
              THEN users[userId].role ELSE "",
   granted |-> IF userId \in UserIds /\ users[userId].present
                 THEN {<<g[2], g[3]>> : g \in {x \in grants :
                                                 x[1] = users[userId].role}}
                 ELSE {}]

\* a call of PermissionService.hasPermission
CheckPermission(userId, resource, action, dbOk1, dbOk2) ==
  /\ lastCall' = [op |-> "hasPermission", userId |-> userId,
                  resource |-> resource, action |-> action,
                  dbOk1 |-> dbOk1, dbOk2 |-> dbOk2,
                  store |-> StoreFacts(userId),
                  result |-> hasPermissionTry(userId, resource, action,
                                              dbOk1, dbOk2)]
  /\ UNCHANGED <<now, storeVars, cacheVars, issued, resp, histVars, regVars,
                 permVars, auxVars, refreshPending>>

\* a call of PermissionService.hasAnyPermission
CheckAny(userId, permissions) ==
  /\ lastCall' = [op |-> "hasAnyPermission", userId |-> userId,
                  permissions |-> permissions, store |-> StoreFacts(userId),
                  result |-> hasAnyPermission(userId, permissions)]
  /\ UNCHANGED <<now, storeVars, cacheVars, issued, resp, histVars, regVars,
                 permVars, auxVars, refreshPending>>

\* a call of PermissionService.hasAllPermissions
CheckAll(userId, permissions) ==
  /\ lastCall' = [op |-> "hasAllPermissions", userId |-> userId,
                  permissions |-> permissions, store |-> StoreFacts(userId),
                  result |-> hasAllPermissions(userId, permissions)]
  /\ UNCHANGED <<now, storeVars, cacheVars, issued, resp, histVars, regVars,
                 permVars, auxVars, refreshPending>>

\* ------------------------------------------------------------- middlewares
Next0 == [status |-> 0, message |-> "next"]
Reject(status, message) == [status |-> status, message |-> message]

\* authenticate: NullTok stands for a missing or non-Bearer header
authenticate(token) ==
  IF token = NullTok THEN Reject(401, "No token provided")
  ELSE IF isTokenBlacklisted(token) THEN Reject(401, "Token has been revoked")
  ELSE IF ~verifyToken(token) THEN Reject(401, "Invalid or expired token")
  ELSE Next0

\* the middleware built by Permission(requirements, options); role is
\* req.user.role, "" when req.user is undefined
PermissionMiddleware(userId, role, permissions, requireAll) ==
  IF role = "" THEN Reject(401, "Authentication required")
  ELSE IF role = "super_admin" THEN Next0
  ELSE IF (IF requireAll THEN hasAllPermissions(userId, permissions)
                         ELSE hasAnyPermission(userId, permissions))
    THEN Next0
    ELSE Reject(403, "Insufficient permissions")

\* UserController: class middlewares [rateLimiter, authenticate], then the
\* route's Permission middleware
Routes == {"GET /users", "POST /users", "PUT /users/:id", "DELETE /users/:id"}
RoutePermissions(route) ==
  CASE route = "GET /users" -> << <<"user", "read">> >>
    [] route = "POST /users" -> << <<"user", "create">> >>
    [] route = "PUT /users/:id" -> << <<"user", "update">> >>
    [] route = "DELETE /users/:id" -> << <<"user", "delete">> >>

\* the outcome of the middleware chain of a UserController route
Gate(token, route) ==
  LET a == authenticate(token) IN
  IF a.status # 0 THEN a
  ELSE PermissionMiddleware(token.userId, token.role,
                            RoutePermissions(route), FALSE)

\* ------------------------------------------------------------- AuthService
FindByEmail(e) == {u \in UserIds : users[u].present /\ users[u].email = e}

\* the error AuthService.login throws, "" when it returns
loginError(email, password) ==
  LET found == FindByEmail(toLowerCase(email)) IN
  IF found = {} THEN "Invalid email or password"
  ELSE LET u == CHOOSE x \in found : TRUE IN
       IF ~users[u].isActive THEN "Account is deactivated"
       ELSE IF ~comparePassword(password, users[u].password)
         THEN "Invalid email or password"
         ELSE ""

\* a refresh that looks the subject up in the Credential Store first
refreshTokenError_store(token) ==
  IF ~verifyToken(token) THEN "Invalid or expired token"
  ELSE IF ~users[token.userId].present \/ ~users[token.userId].isActive
    THEN "Invalid refresh token"
  ELSE LET storedToken == getRefreshToken(token.userId) IN
       IF storedToken # NullTok /\ storedToken # token
         THEN "Invalid refresh token"
         ELSE ""

\* the error AuthService.refreshToken throws, "" when it returns
refreshTokenError(token) ==
  IF ~verifyToken(token) THEN "Invalid or expired token"
  ELSE LET storedToken == getRefreshToken(token.userId) IN
       IF storedToken # NullTok /\ storedToken # token
         THEN "Invalid refresh token"
         ELSE ""

\* a blacklist entry that ends one second before its token does
LogoutExpiry_short(token) == token.exp - now - 1

\* logout: decoded.exp - Math.floor(Date.now() / 1000)
LogoutExpiry(token) == token.exp - now

Presentable == issued \cup {ForgedTok}
AccessTokens == {t \in issued : t.exp = t.iat + AccessTTL}

\* POST /auth/login, but for the record of the call
LoginBody(email, password) ==
  LET err == loginError(email, password) IN
  IF err # ""
    THEN /\ resp' = Response("login", 401, err, "")
         /\ UNCHANGED <<now, storeVars, cacheVars, issued, histVars, regVars,
                        permVars, auxVars, refreshPending>>
    ELSE LET u == CHOOSE x \in FindByEmail(toLowerCase(email)) : TRUE
             tokens == generateTokens(
                         [userId |-> u, email |-> users[u].email,
                          role |-> users[u].role], now)
         IN /\ Cardinality(issued \cup {tokens.accessToken,
                                        tokens.refreshToken}) <= MaxIssued
            /\ refreshStore' =
                 storeRefreshToken(refreshStore, u, tokens.refreshToken)
            /\ issued' = issued \cup {tokens.accessToken, tokens.refreshToken}
            /\ resp' = Response("login", 200, "Login successful", "")
            /\ priorRefresh' = {t \in priorRefresh : t.userId # u}
            /\ UNCHANGED <<now, storeVars, redisClient, redisReachable,
                           blacklist, loggedOut, superseded, regVars,
                           permVars, auxVars, refreshPending>>

\* POST /auth/login
Login(email, password) ==
  /\ LoginBody(email, password)
  /\ UNCHANGED lastCall

\* POST /auth/refresh, but for the record of the call
RefreshBody(token) ==
  LET err == refreshTokenError(token) IN
  IF err # ""
    THEN /\ resp' = Response("refresh", 401, err, "")
         /\ UNCHANGED <<now, storeVars, cacheVars, issued, histVars, regVars,
            permVars, auxVars, refreshPending>>
    ELSE LET newTokens == generateTokens(Payload(token), now) IN
         /\ Cardinality(issued \cup {newTokens.accessToken,
                                     newTokens.refreshToken}) <= MaxIssued
         /\ refreshStore' = storeRefreshToken(refreshStore, token.userId,
                                              newTokens.refreshToken)
         /\ issued' = issued \cup {newTokens.accessToken,
                                   newTokens.refreshToken}
         /\ resp' = Response("refresh", 200, "Token refreshed successfully", "")
         /\ superseded' = IF CacheOk THEN superseded \cup {token}
                                     ELSE superseded
         /\ UNCHANGED <<now, storeVars, redisClient, redisReachable,
                        blacklist, loggedOut, priorRefresh, regVars,
                        permVars, auxVars, refreshPending>>

\* POST /auth/refresh
Refresh(token) ==
  /\ RefreshBody(token)
  /\ UNCHANGED lastCall

\* POST /auth/logout: authenticate, then AuthService.logout
Logout(token) ==
  LET a == authenticate(token) IN
  IF a.status # 0
    THEN /\ resp' = Response("logout", a.status, a.message, "")
         /\ UNCHANGED <<now, storeVars, cacheVars, issued, histVars, regVars,
            permVars, auxVars, callVars>>
    ELSE LET userId == token.userId
             expiry == LogoutExpiry(token)
         IN /\ refreshStore' = removeRefreshToken(refreshStore, userId)
            /\ blacklist' = IF expiry > 0
                              THEN blacklistToken(blacklist, token, expiry)
                              ELSE blacklist
            /\ resp' = Response("logout", 200, "Logout successful", userId)
            /\ loggedOut' = IF CacheOk THEN loggedOut \cup {token}
                                       ELSE loggedOut
            /\ priorRefresh' =
                 IF CacheOk /\ getRefreshToken(userId) # NullTok
                   THEN priorRefresh \cup {getRefreshToken(userId)}
                   ELSE priorRefresh
            /\ UNCHANGED <<now, storeVars, redisClient, redisReachable,
                           issued, superseded, regVars, permVars, auxVars, callVars>>

\* a request to a UserController route
GateRequest(token, route) ==
  LET g == Gate(token, route) IN
  /\ resp' = Response("gate", IF g.status = 0 THEN 200 ELSE g.status,
                      g.message,
                      IF authenticate(token) = Next0 THEN token.userId ELSE "")
  /\ UNCHANGED <<now, storeVars, cacheVars, issued, histVars, regVars,
            permVars, auxVars, callVars>>

\* one second passes; Redis drops the keys whose expiry has come
Tick ==
  /\ now < MaxTime
  /\ now' = now + 1
  /\ refreshStore' = [u \in UserIds |->
                        IF refreshStore[u].expiresAt <= now + 1
                          THEN NoEntry ELSE refreshStore[u]]
  /\ blacklist' = {e \in blacklist : e.expiresAt > now + 1}
  /\ UNCHANGED <<storeVars, redisClient, redisReachable, issued, resp,
                 histVars, regVars, permVars, auxVars, callVars>>

\* the connection to Redis is lost / comes back (commands throw meanwhile)
RedisDown ==
  /\ redisClient /\ redisReachable
  /\ redisReachable' = FALSE
  /\ UNCHANGED <<now, storeVars, redisClient, refreshStore, blacklist, issued,
                 resp, histVars, regVars, permVars, auxVars, callVars>>

RedisUp ==
  /\ redisClient /\ ~redisReachable
  /\ redisReachable' = TRUE
  /\ UNCHANGED <<now, storeVars, redisClient, refreshStore, blacklist, issued,
                 resp, histVars, regVars, permVars, auxVars, callVars>>

LoginEmails == {"root@x.com", "Jo@X.com", "ghost@x.com"}
TokenLoginEmails == {"root@x.com"}
TokenPasswords == {"Secret123"}

InitToken == InitWith("admin", ROLE_PERMISSIONS, TRUE)

NextToken ==
  \/ Tick
  \/ RedisDown
  \/ RedisUp
  \/ \E e \in TokenLoginEmails, pw \in TokenPasswords : Login(e, pw)
  \/ \E t \in issued : Refresh(t)
  \/ \E t \in issued : Logout(t)
  \/ \E t \in issued : GateRequest(t, "GET /users")

SpecToken == InitToken /\ [][NextToken]_vars

\* the same operations, started with or without a Redis client (initRedis
\* leaves redisClient null when the connection fails)
InitCache == \E c \in BOOLEAN : InitWith("admin", ROLE_PERMISSIONS, c)

SpecCache == InitCache /\ [][NextToken]_vars

\* ------------------------------------------------- store management, gate
\* DELETE /users/:id: the middleware chain, then UserService.deleteUser
HttpDeleteUser(token, id) ==
  LET g == Gate(token, "DELETE /users/:id") IN
  /\ IF g.status # 0
       THEN /\ resp' = Response("delete", g.status, g.message, "")
            /\ users' = users
            /\ UNCHANGED <<userCache, listCache>>
       ELSE IF users[id].present
         THEN /\ users' = [users EXCEPT ![id] = Deleted]
              /\ userCache' = invalidateUser(userCache, id)
              /\ listCache' = invalidateUserList(listCache)
              /\ resp' = Response("delete", 200, "User deleted successfully",
                                  token.userId)
         ELSE /\ users' = users
              /\ UNCHANGED <<userCache, listCache>>
              /\ resp' = Response("delete", 404, "User not found",
                                  token.userId)
  /\ UNCHANGED <<now, grants, cacheVars, issued, histVars, regVars,
            permVars, ucRest, callVars>>

\* a management write to the Credential Store gives subject u the role r
StoreSetRole(u, r) ==
  /\ users[u].present
  /\ users[u].role # r
  /\ users' = [users EXCEPT ![u].role = r]
  /\ UNCHANGED <<now, grants, cacheVars, issued, resp, histVars, regVars,
            permVars, auxVars, callVars>>

GateLoginEmails == {"root@x.com", "Jo@X.com"}

NextGate ==
  \/ Tick
  \/ \E e \in GateLoginEmails, pw \in TokenPasswords : Login(e, pw)
  \/ \E t \in Presentable \cup {NullTok}, r \in Routes : GateRequest(t, r)
  \/ \E t \in issued, id \in SeededIds : HttpDeleteUser(t, id)
  \/ \E u \in SeededIds, r \in {"super_admin", "user"} : StoreSetRole(u, r)

SpecGate == Init /\ [][NextGate]_vars

\* ------------------------------------------------- AuthService.register
E_DUP == "User with this email already exists"
E_AUTH == "Authentication required to assign specific roles"
E_PERM == "Insufficient permissions to assign roles"
E_ROLE == "Role not found"
\* the error of prisma.user.create on the unique index of users.email
E_UNIQUE == "Unique constraint failed on the fields: (email)"
E_CTRL == "Insufficient permissions to assign roles. Only admins can assign specific roles."

\* String.prototype.includes over the messages register can throw
Includes(msg, sub) ==
  <<msg, sub>> \in {<<E_DUP, "already exists">>, <<E_PERM, "permission">>,
                    <<E_PERM, "Insufficient">>, <<E_ROLE, "not found">>}

\* the catch block of AuthController.register
registerErrorStatus(msg) ==
  IF Includes(msg, "already exists") THEN 409
  ELSE IF Includes(msg, "permission") \/ Includes(msg, "Insufficient") THEN 403
  ELSE IF Includes(msg, "not found") THEN 404
  ELSE 500

\* the checks of register, up to the role lookup, with no permission check
registerCheck_noperm(email, roleName, requestedByUserId) ==
  IF FindByEmail(toLowerCase(email)) # {}
    THEN [error |-> E_DUP, role |-> ""]
  ELSE IF roleName # ""
    THEN IF requestedByUserId = "" THEN [error |-> E_AUTH, role |-> ""]
         ELSE IF roleName \notin RoleNames THEN [error |-> E_ROLE, role |-> ""]
         ELSE [error |-> "", role |-> roleName]
  ELSE [error |-> "", role |-> "user"]

\* the checks of register, up to the role lookup: the error thrown, or the
\* role to assign
registerCheck(email, roleName, requestedByUserId) ==
  IF FindByEmail(toLowerCase(email)) # {}
    THEN [error |-> E_DUP, role |-> ""]
  ELSE IF roleName # ""
    THEN IF requestedByUserId = "" THEN [error |-> E_AUTH, role |-> ""]
         ELSE IF ~hasPermission(requestedByUserId, "user", "create")
           THEN [error |-> E_PERM, role |-> ""]
         ELSE IF roleName \notin RoleNames THEN [error |-> E_ROLE, role |-> ""]
         ELSE [error |-> "", role |-> roleName]
  ELSE IF "user" \notin RoleNames THEN [error |-> E_ROLE, role |-> ""]
  ELSE [error |-> "", role |-> "user"]

\* the subject holds user:create in the store: bypass role or a grant
HoldsUserCreate(u) ==
  /\ u \in UserIds
  /\ users[u].present
  /\ \/ users[u].role = "super_admin"
     \/ <<users[u].role, "user", "create">> \in grants

EmailTaken(email) ==
  \E u \in UserIds :
    users[u].present /\ toLowerCase(users[u].email) = toLowerCase(email)

\* ids in the order the store generates them
IdOrder == <<"u1", "u2", "u3", "u4">>
HasFreeId == \E i \in 1..Len(IdOrder) : ~users[IdOrder[i]].used
NextId ==
  IdOrder[CHOOSE i \in 1..Len(IdOrder) :
            /\ ~users[IdOrder[i]].used
            /\ \A j \in 1..(i - 1) : users[IdOrder[j]].used]

\* the part of register before the insert: its checks; the call ends here
\* when a check throws
RegisterChecks(p, call) ==
  LET c == registerCheck(call.email, call.roleName, call.requester) IN
  IF c.error # ""
    THEN /\ regLog' = [call EXCEPT !.error = c.error,
                         !.status = IF call.http
                                      THEN registerErrorStatus(c.error)
                                      ELSE 0]
         /\ resp' = Response("register",
                             IF call.http THEN registerErrorStatus(c.error)
                                          ELSE 0,
                             c.error, "")
         /\ UNCHANGED <<regPending>>
    ELSE /\ regPending' = [regPending EXCEPT ![p] =
                             [call EXCEPT !.active = TRUE, !.role = c.role]]
         /\ UNCHANGED <<regLog, resp>>

\* AuthService.register(data, requestedByUserId), called directly
RegisterCall(p, email, password, roleName, requestedByUserId) ==
  /\ ~regPending[p].active
  /\ RegisterChecks(p, [NoCall EXCEPT !.service = TRUE, !.email = email,
                          !.password = password, !.roleName = roleName,
                          !.requester = requestedByUserId,
                          !.held = HoldsUserCreate(requestedByUserId),
                          !.taken = EmailTaken(email),
                          !.takenAtEnd = EmailTaken(email)])
  /\ UNCHANGED <<now, storeVars, cacheVars, issued, histVars, permVars, auxVars, callVars>>

\* the middlewares of POST /auth/register: the class-level rateLimiter and the
\* route's validation; authenticate is not among them
RegisterChain == <<"rateLimiter", "validate">>
ValidRoleNames == {"user", "admin", "employee", "moderator", "super_admin"}

\* req.user.userId as the handler of the route sees it, "" for undefined
ReqUserId(chain, token) ==
  IF (\E i \in 1..Len(chain) : chain[i] = "authenticate")
       /\ authenticate(token) = Next0
    THEN token.userId
    ELSE ""

\* POST /auth/register with body {email, password, roleName} and a bearer
\* token (NullTok for none)
HttpRegister(p, email, password, roleName, token) ==
  LET userId == ReqUserId(RegisterChain, token)
      canAssignRole == userId # "" /\ hasPermission(userId, "user", "create")
      call == [NoCall EXCEPT !.http = TRUE, !.email = email,
                 !.password = password, !.roleName = roleName,
                 !.requester = userId,
                 !.held = HoldsUserCreate(userId),
                 !.bearer = (authenticate(token) = Next0
                               /\ HoldsUserCreate(token.userId)),
                 !.taken = EmailTaken(email),
                 !.takenAtEnd = EmailTaken(email)]
  IN
  /\ ~regPending[p].active
  /\ IF roleName # "" /\ roleName \notin ValidRoleNames
       THEN /\ regLog' = [call EXCEPT !.error = "Validation failed",
                            !.status = 400]
            /\ resp' = Response("register", 400, "Validation failed", "")
            /\ UNCHANGED regPending
     ELSE IF roleName # "" /\ ~canAssignRole
       THEN /\ regLog' = [call EXCEPT !.error = E_CTRL, !.status = 403]
            /\ resp' = Response("register", 403, E_CTRL, "")
            /\ UNCHANGED regPending
     ELSE RegisterChecks(p, [call EXCEPT !.service = TRUE])
  /\ UNCHANGED <<now, storeVars, cacheVars, issued, histVars, permVars, auxVars, callVars>>

\* the rest of register: hashPassword, prisma.user.create, the response
RegisterCreate(p) ==
  LET call == regPending[p] IN
  /\ call.active
  /\ regPending' = [regPending EXCEPT ![p] = NoCall]
  /\ IF FindByEmail(toLowerCase(call.email)) # {}
       THEN /\ users' = users
            /\ regLog' = [call EXCEPT !.active = FALSE, !.takenAtEnd = TRUE,
                            !.error = E_UNIQUE,
                            !.status = IF call.http
                                         THEN registerErrorStatus(E_UNIQUE)
                                         ELSE 0]
            /\ resp' = Response("register",
                                IF call.http
                                  THEN registerErrorStatus(E_UNIQUE) ELSE 0,
                                E_UNIQUE, "")
       ELSE /\ HasFreeId
            /\ users' = [users EXCEPT ![NextId] =
                 [present |-> TRUE, used |-> TRUE,
                  email |-> toLowerCase(call.email),
                  password |-> hashPassword(call.password),
                  role |-> call.role, isActive |-> TRUE]]
            /\ regLog' = [call EXCEPT !.active = FALSE,
                            !.status = IF call.http THEN 201 ELSE 0,
                            !.assigned = call.role, !.created = TRUE]
            /\ resp' = Response("register", IF call.http THEN 201 ELSE 0,
                                "User registered successfully", "")
  /\ UNCHANGED <<now, grants, cacheVars, issued, histVars, permVars, auxVars, callVars>>

RegEmails == {"Jo@X.com", "al@x.com", "AL@x.com"}
RegPasswords == {"Secret123"}
RoleInputs == {"", "admin", "ghost"}
Requesters == {"", "u1", "u2"}

NextReg ==
  \/ \E e \in GateLoginEmails, pw \in TokenPasswords : Login(e, pw)
  \/ \E p \in Procs, e \in RegEmails, pw \in RegPasswords, rn \in RoleInputs,
        by \in Requesters : RegisterCall(p, e, pw, rn, by)
  \/ \E p \in Procs, e \in RegEmails, pw \in RegPasswords, rn \in RoleInputs,
        t \in AccessTokens \cup {NullTok} : HttpRegister(p, e, pw, rn, t)
  \/ \E p \in Procs : RegisterCreate(p)

InitReg == InitWith("admin", TestSeedGrants, TRUE)

SpecReg == InitReg /\ [][NextReg]_vars

\* ---------------------------------------------------------- UserService
\* UserService.createUser(data), the service behind POST /users; password ""
\* stands for an absent password
createUser(email, password) ==
  IF FindByEmail(toLowerCase(email)) # {}
    THEN /\ resp' = Response("createUser", 0, E_DUP, "")
         /\ users' = users
         /\ UNCHANGED <<userCache, listCache>>
    ELSE /\ HasFreeId
         /\ users' = [users EXCEPT ![NextId] =
              [present |-> TRUE, used |-> TRUE, email |-> toLowerCase(email),
               password |-> PlainText(password), role |-> "user",
               isActive |-> TRUE]]
         /\ userCache' = cacheUser(userCache, NextId,
                                   Selected(users'[NextId]))
         /\ listCache' = invalidateUserList(listCache)
         /\ resp' = Response("createUser", 0, "", NextId)

CreateUser(email, password) ==
  /\ createUser(email, password)
  /\ UNCHANGED <<now, grants, cacheVars, issued, histVars, regVars,
            permVars, ucRest, callVars>>

\* UserService.updateUser(id, data); "" stands for an absent field
UpdateUser(id, email, password) ==
  /\ IF ~users[id].present
       THEN /\ resp' = Response("updateUser", 0, "null", "")
            /\ users' = users
            /\ UNCHANGED <<userCache, listCache>>
     ELSE IF email # "" /\ FindByEmail(toLowerCase(email)) \ {id} # {}
       THEN /\ resp' = Response("updateUser", 0, E_DUP, "")
            /\ users' = users
            /\ UNCHANGED <<userCache, listCache>>
     ELSE /\ users' = [users EXCEPT
                 ![id].email = IF email # "" THEN toLowerCase(email) ELSE @,
                 ![id].password = IF password # "" THEN PlainText(password)
                                  ELSE @]
          /\ userCache' = cacheUser(invalidateUser(userCache, id), id,
                                    Selected(users'[id]))
          /\ listCache' = invalidateUserList(listCache)
          /\ resp' = Response("updateUser", 0, "", id)
  /\ UNCHANGED <<now, grants, cacheVars, issued, histVars, regVars,
            permVars, ucRest, callVars>>

\* a management write to the Credential Store sets the active flag of u
StoreSetActive(u, b) ==
  /\ users[u].present
  /\ users[u].isActive # b
  /\ users' = [users EXCEPT ![u].isActive = b]
  /\ UNCHANGED <<now, grants, cacheVars, issued, resp, histVars, regVars,
            permVars, auxVars, callVars>>

CreateEmails == {"al@x.com", "Jo@X.com"}
CreatePasswords == {"", "Secret123"}
UpdateEmails == {"", "AL@x.com"}
UpdatePasswords == {"", "Other456"}

NextUsers ==
  \/ \E e \in LoginEmails \cup {"al@x.com"}, pw \in Passwords : Login(e, pw)
  \/ \E e \in CreateEmails, pw \in CreatePasswords : CreateUser(e, pw)
  \/ \E id \in UserIds, e \in UpdateEmails, pw \in UpdatePasswords :
       UpdateUser(id, e, pw)
  \/ \E u \in SeededIds, b \in BOOLEAN : StoreSetActive(u, b)
  \/ \E e \in CreateEmails, pw \in RegPasswords :
       RegisterCall(1, e, pw, "", "")
  \/ RegisterCreate(1)

\* the user operations in a process that started without Redis (initRedis
\* left redisClient null): the cache calls of UserService are no-ops
InitUsers == InitWith("admin", TestSeedGrants, FALSE)

SpecUsers == InitUsers /\ [][NextUsers]_vars

\* ------------------------------------------------- sessions of a subject
\* POST /auth/login, recording the refresh token it returns and the one the
\* previous login of the same subject returned
LoginTracked(email, password) ==
  /\ LoginBody(email, password)
  /\ lastCall' =
       IF loginError(email, password) # "" THEN lastCall
       ELSE LET u == CHOOSE x \in FindByEmail(toLowerCase(email)) : TRUE
                tokens == generateTokens(
                            [userId |-> u, email |-> users[u].email,
                             role |-> users[u].role], now)
            IN [op |-> "login", userId |-> u,
                refreshToken |-> tokens.refreshToken,
                previous |-> IF lastCall.op = "login" /\ lastCall.userId = u
                               THEN lastCall.refreshToken ELSE NullTok]

NextSession ==
  \/ Tick
  \/ \E e \in TokenLoginEmails, pw \in TokenPasswords : LoginTracked(e, pw)
  \/ \E t \in issued : Refresh(t)
  \/ \E t \in issued : Logout(t)

SpecSession == InitToken /\ [][NextSession]_vars

\* AuthService.refreshToken up to the answer of getRefreshToken: verifyToken
\* and the read of the stored token
RefreshBegin(p, token) ==
  /\ ~refreshPending[p].active
  /\ IF ~verifyToken(token)
       THEN /\ resp' = Response("refresh", 401, "Invalid or expired token", "")
            /\ UNCHANGED refreshPending
       ELSE /\ refreshPending' =
                 [q \in Procs |->
                    IF q = p
                      THEN [active |-> TRUE, token |-> token,
                            stored |-> getRefreshToken(token.userId),
                            overlap |-> \E o \in Procs \ {p} :
                                          /\ refreshPending[o].active
                                          /\ refreshPending[o].token = token]
                    ELSE IF refreshPending[q].active
                              /\ refreshPending[q].token = token
                      THEN [refreshPending[q] EXCEPT !.overlap = TRUE]
                    ELSE refreshPending[q]]
            /\ UNCHANGED resp
  /\ UNCHANGED <<now, storeVars, cacheVars, issued, histVars, regVars,
                 permVars, auxVars, lastCall>>

\* the rest of AuthService.refreshToken: the comparison with the token read,
\* generateTokens and storeRefreshToken
RefreshEnd(p) ==
  LET call == refreshPending[p] IN
  /\ call.active
  /\ refreshPending' = [refreshPending EXCEPT ![p] = NoRefresh]
  /\ IF call.stored # NullTok /\ call.stored # call.token
       THEN /\ resp' = Response("refresh", 401, "Invalid refresh token", "")
            /\ lastCall' = [op |-> "refresh-rejected", presented |-> call.token]
            /\ UNCHANGED <<refreshStore, issued>>
       ELSE LET newTokens == generateTokens(Payload(call.token), now) IN
            /\ Cardinality(issued \cup {newTokens.accessToken,
                                        newTokens.refreshToken}) <= MaxIssued
            /\ refreshStore' = storeRefreshToken(refreshStore,
                                 call.token.userId, newTokens.refreshToken)
            /\ issued' = issued \cup {newTokens.accessToken,
                                      newTokens.refreshToken}
            /\ resp' = Response("refresh", 200,
                                "Token refreshed successfully", "")
            /\ lastCall' =
                 IF call.overlap /\ lastCall.op = "refresh"
                      /\ lastCall.overlap /\ lastCall.presented = call.token
                   THEN [op |-> "race", userId |-> call.token.userId,
                         presented |-> call.token,
                         last |-> newTokens.refreshToken,
                         other |-> lastCall.minted]
                   ELSE [op |-> "refresh", presented |-> call.token,
                         minted |-> newTokens.refreshToken,
                         overlap |-> call.overlap]
  /\ UNCHANGED <<now, storeVars, redisClient, redisReachable, blacklist,
                 histVars, regVars, permVars, auxVars>>

RefreshTokens == {t \in issued : t.exp = t.iat + RefreshTTL}

NextRace ==
  \/ Tick
  \/ \E e \in TokenLoginEmails, pw \in TokenPasswords :
       issued = {} /\ Login(e, pw)
  \/ \E p \in Procs, t \in RefreshTokens : RefreshBegin(p, t)
  \/ \E p \in Procs : RefreshEnd(p)

SpecRace == InitToken /\ [][NextRace]_vars

\* ------------------------------------------------------- protected routes
\* a string that is not a JWT: jwt.decode returns null for it
GarbageTok == [NullTok EXCEPT !.sig = "garbage"]

\* jwt.decode(token) yields a payload with exp
Decodes(token) == token.sig \in {"ok", "bad"}

\* AuthService.logout(userId, accessToken)
ServiceLogout(userId, token) ==
  LET expiry == LogoutExpiry(token)
      blacklists == Decodes(token) /\ expiry > 0
  IN
  /\ refreshStore' = removeRefreshToken(refreshStore, userId)
  /\ blacklist' = IF blacklists THEN blacklistToken(blacklist, token, expiry)
                  ELSE blacklist
  /\ lastCall' = [op |-> "logout", userId |-> userId, token |-> token,
                  at |-> now, cacheOk |-> CacheOk, error |-> ""]
  /\ UNCHANGED <<now, storeVars, redisClient, redisReachable, issued, resp,
                 histVars, regVars, permVars, auxVars, refreshPending>>

NextLogout ==
  \/ Tick
  \/ RedisDown
  \/ RedisUp
  \/ \E e \in TokenLoginEmails, pw \in TokenPasswords : Login(e, pw)
  \/ \E t \in issued \cup {ForgedTok, GarbageTok} :
       ServiceLogout(IF t = GarbageTok THEN "u1" ELSE t.userId, t)

SpecLogout == InitToken /\ [][NextLogout]_vars

\* the steps authenticate runs for a bearer token, NullTok for a missing or
\* non-Bearer header
AuthSteps(token) ==
  IF token = NullTok THEN <<"header">>
  ELSE IF isTokenBlacklisted(token) THEN <<"header", "blacklist">>
  ELSE IF ~verifyToken(token) THEN <<"header", "blacklist", "verify">>
  ELSE <<"header", "blacklist", "verify", "attach">>

\* the steps of a route of a controller with class-level Auth and a
\* route-level Permission(permissions, {requireAll})
GateSteps(token, permissions, requireAll) ==
  LET a == authenticate(token) IN
  IF a.status # 0 THEN [steps |-> AuthSteps(token), out |-> a]
  ELSE LET pm == PermissionMiddleware(token.userId, token.role, permissions,
                                      requireAll)
       IN [steps |-> AuthSteps(token) \o
                       (IF pm = Next0 THEN <<"permission", "handler">>
                                      ELSE <<"permission">>),
           out |-> IF pm = Next0 THEN [status |-> 200, message |-> "handler"]
                                 ELSE pm]

\* what the store says about a requirement: the subject exists and its role
\* is the bypass role or is granted any / all of the pairs
StoreAllows(userId, permissions, requireAll) ==
  /\ userId \in UserIds
  /\ users[userId].present
  /\ \/ users[userId].role = "super_admin"
     \/ IF requireAll
          THEN \A i \in 1..Len(permissions) :
                 <<users[userId].role, permissions[i][1], permissions[i][2]>>
                   \in grants
          ELSE \E i \in 1..Len(permissions) :
                 <<users[userId].role, permissions[i][1], permissions[i][2]>>
                   \in grants

\* a request to a protected route
ProtectedRequest(token, permissions, requireAll) ==
  LET g == GateSteps(token, permissions, requireAll) IN
  /\ lastCall' = [op |-> "gate", token |-> token,
                  permissions |-> permissions, requireAll |-> requireAll,
                  steps |-> g.steps, status |-> g.out.status,
                  message |-> g.out.message,
                  blacklisted |-> \E e \in blacklist :
                                    e.token = token /\ now < e.expiresAt,
                  valid |-> token.sig = "ok" /\ now < token.exp,
                  met |-> StoreAllows(token.userId, permissions, requireAll),
                  facts |-> StoreFacts(token.userId)]
  /\ UNCHANGED <<now, storeVars, cacheVars, issued, resp, histVars, regVars,
                 permVars, auxVars, refreshPending>>

GateLists == {<< <<"user", "read">> >>,
              << <<"user", "read">>, <<"user", "delete">> >>}

InitOrder == InitWith("super_admin", ROLE_PERMISSIONS, TRUE)

NextOrder ==
  \/ Tick
  \/ \E e \in TokenLoginEmails, pw \in TokenPasswords : Login(e, pw)
  \/ \E t \in AccessTokens \cup {ForgedTok} : ServiceLogout(t.userId, t)
  \/ \E r \in {"super_admin", "user"} : StoreSetRole("u1", r)
  \/ \E t \in AccessTokens \cup {ForgedTok, NullTok}, L \in GateLists,
        all \in BOOLEAN : ProtectedRequest(t, L, all)

SpecOrder == InitOrder /\ [][NextOrder]_vars

\* ------------------------------------------------------ PermissionService
\* UserService.deleteUser(id)
DeleteUser(id) ==
  /\ users[id].present
  /\ users' = [users EXCEPT ![id] = Deleted]
  /\ userCache' = invalidateUser(userCache, id)
  /\ listCache' = invalidateUserList(listCache)
  /\ resp' = Response("deleteUser", 0, "", id)
  /\ UNCHANGED <<now, grants, cacheVars, issued, histVars, regVars,
                 permVars, ucRest, callVars>>

CheckIds == {"u1", "u2", "u3"}
CheckRoles == {"super_admin", "user", ""}
CheckPairs == {<<"user", "read">>, <<"user", "update">>, <<"report", "read">>}
CheckLists == {<<>>} \cup {<<q>> : q \in CheckPairs}
                \cup {<<q, r>> : q \in CheckPairs, r \in CheckPairs}

NextPerm ==
  \/ \E u \in SeededIds, r \in CheckRoles : StoreSetRole(u, r)
  \/ \E id \in SeededIds : DeleteUser(id)
  \/ \E u \in CheckIds, q \in CheckPairs, dbOk1 \in BOOLEAN,
        dbOk2 \in BOOLEAN : CheckPermission(u, q[1], q[2], dbOk1, dbOk2)
  \/ \E u \in CheckIds, L \in CheckLists : CheckAny(u, L)
  \/ \E u \in CheckIds, L \in CheckLists : CheckAll(u, L)

SpecPerm == Init /\ [][NextPerm]_vars

\* --------------------------------------------------- permission management
\* prisma.permission.findUnique({ where: { name } })
permissionByName(rows, name) == {r \in rows : r.name = name}

\* prisma.permission.upsert({ where: { name }, update: { description },
\* create: perm }): an existing row keeps its resource and action
permissionUpsert(rows, perm) ==
  IF permissionByName(rows, perm.name) # {} THEN rows ELSE rows \cup {perm}

\* the Promise.all over the actions of createModulePermissions
RECURSIVE upsertAll(_, _, _)
upsertAll(rows, module, actions) ==
  IF actions = <<>> THEN rows
  ELSE upsertAll(permissionUpsert(rows,
                   PermissionRow(PermissionName(module, Head(actions)),
                                 module, Head(actions))),
                 module, Tail(actions))

\* an upsert that creates without looking for the row
rolePermissionUpsert_create(rows, role, name) ==
  rows (+) SetToBag({<<role, name>>})

\* prisma.rolePermission.upsert({ where: { roleId_permissionId },
\* update: {}, create })
rolePermissionUpsert(rows, role, name) ==
  IF BagIn(<<role, name>>, rows)
    THEN rows
    ELSE rows (+) SetToBag({<<role, name>>})

\* the loop of assignPermissionsToRole: a pair whose permission is not found
\* is skipped
RECURSIVE assignLoop(_, _, _, _)
assignLoop(rows, perms, role, permissions) ==
  IF permissions = <<>> THEN rows
  ELSE LET name == PermissionName(Head(permissions)[1], Head(permissions)[2])
       IN assignLoop(IF permissionByName(perms, name) # {}
                       THEN rolePermissionUpsert(rows, role, name)
                       ELSE rows,
                     perms, role, Tail(permissions))

\* role.permissions[].permission as hasPermission reads them
GrantTriples(rows, perms) ==
  UNION {{<<k[1], r.resource, r.action>> : r \in permissionByName(perms, k[2])}
           : k \in BagToSet(rows)}

\* PermissionService.assignPermissionsToRole(roleName, permissions)
AssignPermissionsToRole(roleName, permissions) ==
  LET found == roleName \in ValidRoleNames
      rows == IF found
                THEN assignLoop(grantRows, permissionRows, roleName,
                                permissions)
                ELSE grantRows
  IN
  /\ grantRows' = rows
  /\ grants' = GrantTriples(rows, permissionRows)
  /\ lastCall' = [op |-> "assign", role |-> roleName,
                  permissions |-> permissions,
                  error |-> IF found THEN "" ELSE "Role not found",
                  before |-> grantRows,
                  repeat |-> /\ lastCall.op = "assign"
                             /\ lastCall.role = roleName
                             /\ lastCall.permissions = permissions
                             /\ lastCall.error = ""]
  /\ UNCHANGED <<now, users, cacheVars, issued, resp, histVars, regVars,
                 permissionRows, refreshPending, auxVars>>

\* PermissionController.createPermission: POST /permissions behind its gate
CreatePermission(name, resource, action) ==
  LET existing == permissionByName(permissionRows, name) IN
  /\ permissionRows' = IF existing # {}
                         THEN permissionRows
                         ELSE permissionRows
                                \cup {PermissionRow(name, resource, action)}
  /\ lastCall' = [op |-> "createPermission", name |-> name,
                  resource |-> resource, action |-> action,
                  status |-> IF existing # {} THEN 409 ELSE 201]
  /\ UNCHANGED <<now, storeVars, cacheVars, issued, resp, histVars, regVars,
                 grantRows, refreshPending, auxVars>>

\* PermissionService.createModulePermissions(module, actions)
CreateModulePermissions(module, actions) ==
  /\ permissionRows' = upsertAll(permissionRows, module, actions)
  /\ lastCall' = [op |-> "createModulePermissions", module |-> module,
                  actions |-> actions]
  /\ UNCHANGED <<now, storeVars, cacheVars, issued, resp, histVars, regVars,
                 grantRows, refreshPending, auxVars>>

NewNames == {"order:read", "x"}
NewResources == {"order", "user"}
NewActions == {"read"}
ModuleActions == {<<"read">>, <<"read", "cancel">>}
AssignRoles == {"user", "moderator", "ghost"}
AssignLists == {<< <<"user", "delete">> >>,
                << <<"order", "read">>, <<"user", "delete">> >>,
                << <<"order", "cancel">> >>}

InitAdmin == InitWith("admin", ROLE_PERMISSIONS, TRUE)

NextAdmin ==
  \/ \E n \in NewNames, r \in NewResources, a \in NewActions :
       CreatePermission(n, r, a)
  \/ \E mod \in NewResources, L \in ModuleActions :
       CreateModulePermissions(mod, L)
  \/ \E r \in AssignRoles, L \in AssignLists : AssignPermissionsToRole(r, L)

SpecAdmin == InitAdmin /\ [][NextAdmin]_vars

\* the requirement on the route GET /permissions
GetAllPermissionsGate == << <<"settings", "read">> >>

\* PermissionController.getAllPermissions behind the class-level Auth and its
\* Permission middleware
GetAllPermissions(token) == ProtectedRequest(token, GetAllPermissionsGate, FALSE)

ListLoginEmails == {"root@x.com", "jo@x.com"}
ListGrants == {<< <<"permission", "read">> >>}

InitList == InitWith("moderator", ROLE_PERMISSIONS, TRUE)

NextList ==
  \/ Tick
  \/ \E e \in ListLoginEmails, pw \in TokenPasswords : Login(e, pw)
  \/ \E L \in ListGrants : AssignPermissionsToRole("user", L)
  \/ \E t \in AccessTokens \cup {NullTok} : GetAllPermissions(t)

SpecList == InitList /\ [][NextList]_vars

\* ---------------------------------------------------------- access matrix
\* the User Endpoints table of the access matrix
AccessMatrix(role, route) ==
  CASE route = "GET /users" -> role \in RoleNames
    [] route = "POST /users" -> role \in {"super_admin", "admin"}
    [] route = "PUT /users/:id" -> role \in {"super_admin", "admin",
                                              "moderator"}
    [] route = "DELETE /users/:id" -> role \in {"super_admin", "admin"}

\* the role the Credential Store holds for a subject, "" when it has no row
RoleOf(userId) ==
  IF userId \in UserIds /\ users[userId].present
    THEN users[userId].role ELSE ""

InitMatrix == \E r \in RoleNames : InitWith(r, ROLE_PERMISSIONS, TRUE)

NextMatrix ==
  \/ Tick
  \/ \E e \in GateLoginEmails, pw \in TokenPasswords : Login(e, pw)
  \/ \E t \in AccessTokens \cup {NullTok}, r \in Routes : GateRequest(t, r)
  \/ \E t \in AccessTokens, id \in SeededIds : HttpDeleteUser(t, id)

SpecMatrix == InitMatrix /\ [][NextMatrix]_vars

\* ------------------------------------------------- CacheService: list keys
\* the bytes Buffer.from gives the characters of a list query's JSON
LowerCase ==
  <<"a", "b", "c", "d", "e", "f", "g", "h", "i", "j", "k", "l", "m", "n",
    "o", "p", "q", "r", "s", "t", "u", "v", "w", "x", "y", "z">>
UpperCase ==
  <<"A", "B", "C", "D", "E", "F", "G", "H", "I", "J", "K", "L", "M", "N",
    "O", "P", "Q", "R", "S", "T", "U", "V", "W", "X", "Y", "Z">>
DigitChars == <<"0", "1", "2", "3", "4", "5", "6", "7", "8", "9">>
Code(ch) ==
  IF \E i \in 1..26 : LowerCase[i] = ch
    THEN 96 + (CHOOSE i \in 1..26 : LowerCase[i] = ch)
  ELSE IF \E i \in 1..26 : UpperCase[i] = ch
    THEN 64 + (CHOOSE i \in 1..26 : UpperCase[i] = ch)
  ELSE IF \E i \in 1..10 : DigitChars[i] = ch
    THEN 47 + (CHOOSE i \in 1..10 : DigitChars[i] = ch)
  ELSE CASE ch = "\"" -> 34
         [] ch = "," -> 44
         [] ch = ":" -> 58
         [] ch = "{" -> 123
         [] ch = "}" -> 125

\* the base64 alphabet
Base64Alphabet == UpperCase \o LowerCase \o DigitChars \o <<"+", "/">>
Sextet(n) == Base64Alphabet[n + 1]

\* Buffer.toString('base64') of a sequence of characters
RECURSIVE toBase64(_)
toBase64(cs) ==
  IF Len(cs) = 0 THEN <<>>
  ELSE IF Len(cs) = 1
    THEN LET n == Code(cs[1]) * 65536 IN
         <<Sextet(n \div 262144), Sextet((n \div 4096) % 64), "=", "=">>
  ELSE IF Len(cs) = 2
    THEN LET n == Code(cs[1]) * 65536 + Code(cs[2]) * 256 IN
         <<Sextet(n \div 262144), Sextet((n \div 4096) % 64),
           Sextet((n \div 64) % 64), "=">>
  ELSE LET n == Code(cs[1]) * 65536 + Code(cs[2]) * 256 + Code(cs[3]) IN
       <<Sextet(n \div 262144), Sextet((n \div 4096) % 64),
         Sextet((n \div 64) % 64), Sextet(n % 64)>>
         \o toBase64(SubSeq(cs, 4, Len(cs)))

\* String.prototype.slice(0, n)
slice(cs, n) == SubSeq(cs, 1, IF Len(cs) < n THEN Len(cs) ELSE n)

\* the characters of the strings a list query carries
Chars(str) ==
  CASE str = "asc" -> <<"a", "s", "c">>
    [] str = "desc" -> <<"d", "e", "s", "c">>
    [] str = "createdAt" -> <<"c", "r", "e", "a", "t", "e", "d", "A", "t">>
    [] str = "email" -> <<"e", "m", "a", "i", "l">>
    [] str = "jo" -> <<"j", "o">>
    [] str = "limit" -> <<"l", "i", "m", "i", "t">>
    [] str = "order" -> <<"o", "r", "d", "e", "r">>
    [] str = "page" -> <<"p", "a", "g", "e">>
    [] str = "search" -> <<"s", "e", "a", "r", "c", "h">>
    [] str = "sortBy" -> <<"s", "o", "r", "t", "B", "y">>

\* the decimal digits of a natural number
RECURSIVE Digits(_)
Digits(n) ==
  IF n < 10 THEN <<DigitChars[n + 1]>>
  ELSE Digits(n \div 10) \o <<DigitChars[(n % 10) + 1]>>

Quoted(str) == <<"\"">> \o Chars(str) \o <<"\"">>

\* a list query; 0 and "" stand for undefined
Query(page, limit, search, sortBy, order) ==
  [page |-> page, limit |-> limit, search |-> search, sortBy |-> sortBy,
   order |-> order]

\* the members of sortedQuery as JSON.stringify writes them: the keys in
\* sorted order, undefined ones left out
Members(query) ==
  (IF query.limit # 0
     THEN << Quoted("limit") \o <<":">> \o Digits(query.limit) >> ELSE <<>>)
  \o (IF query.order # ""
        THEN << Quoted("order") \o <<":">> \o Quoted(query.order) >>
        ELSE <<>>)
  \o (IF query.page # 0
        THEN << Quoted("page") \o <<":">> \o Digits(query.page) >> ELSE <<>>)
  \o (IF query.search # ""
        THEN << Quoted("search") \o <<":">> \o Quoted(query.search) >>
        ELSE <<>>)
  \o (IF query.sortBy # ""
        THEN << Quoted("sortBy") \o <<":">> \o Quoted(query.sortBy) >>
        ELSE <<>>)

RECURSIVE Joined(_)
Joined(ms) ==
  IF Len(ms) = 0 THEN <<>>
  ELSE IF Len(ms) = 1 THEN ms[1]
  ELSE ms[1] \o <<",">> \o Joined(Tail(ms))

stringify(query) == <<"{">> \o Joined(Members(query)) \o <<"}">>

HashLen == 32

\* CacheService.generateQueryHash
generateQueryHash(query) == slice(toBase64(stringify(query)), HashLen)

\* ------------------------------------------------------ UserService cache
\* what UserService leaves alone when it only reads
readRest == <<now, storeVars, cacheVars, issued, resp, histVars, regVars,
              permVars, refreshPending, rateLimit, boot, sessVars>>

\* deleteUser(id) has returned true
DeleteDone(id) == users[id].used /\ ~users[id].present

\* UserService.getUserById(id) up to its read of the store: a cache hit is
\* returned, a missing row gives null, a row found is cached by GetUserEnd
GetUserBegin(p, id) ==
  /\ ~getPending[p].active
  /\ LET cached == getCachedUser(id) IN
     IF cached.hit
       THEN /\ lastCall' = [op |-> "getUserById", id |-> id,
                            result |-> cached, afterDelete |-> DeleteDone(id),
                            fromCache |-> TRUE,
                            old |-> cached.seen # users[id]]
            /\ UNCHANGED getPending
     ELSE IF ~users[id].present
       THEN /\ lastCall' = [op |-> "getUserById", id |-> id,
                            result |-> NoCached,
                            afterDelete |-> DeleteDone(id),
                            fromCache |-> FALSE, old |-> FALSE]
            /\ UNCHANGED getPending
     ELSE /\ getPending' = [getPending EXCEPT ![p] =
                              [active |-> TRUE, id |-> id,
                               user |-> Selected(users[id]),
                               afterDelete |-> DeleteDone(id)]]
          /\ UNCHANGED lastCall
  /\ UNCHANGED <<readRest, userCache, listCache>>

\* the rest of getUserById: cacheUser(id, user, 600) and return user
GetUserEnd(p) ==
  LET call == getPending[p] IN
  /\ call.active
  /\ UNCHANGED <<readRest, listCache>>
  /\ userCache' = cacheUser(userCache, call.id, call.user)
  /\ getPending' = [getPending EXCEPT ![p] = NoGet]
  /\ lastCall' = [op |-> "getUserById", id |-> call.id, result |-> call.user,
                  afterDelete |-> call.afterDelete, fromCache |-> FALSE,
                  old |-> FALSE]

\* contains, mode insensitive, for the search terms of the model
Contains(email, search) ==
  search = "" \/ (search = "jo" /\ email = "jo@x.com")

\* the emails of the model in ascending order
EmailOrder == <<"al@x.com", "jo@x.com", "root@x.com">>

Reverse(seq) == [i \in 1..Len(seq) |-> seq[Len(seq) + 1 - i]]

\* the ids of the rows in the order orderBy asks for, ascending
SortedIds(sortBy) ==
  IF sortBy = "email"
    THEN LET with(k) == SelectSeq(IdOrder, LAMBDA id :
                          users[id].present /\ users[id].email = EmailOrder[k])
         IN with(1) \o with(2) \o with(3)
    ELSE SelectSeq(IdOrder, LAMBDA id : users[id].present)

DefaultPage == 1
DefaultLimit == 10

\* the page findMany and count give for a query
FindPage(query) ==
  LET page == IF query.page = 0 THEN DefaultPage ELSE query.page
      limit == IF query.limit = 0 THEN DefaultLimit ELSE query.limit
      skip == (page - 1) * limit
      sortBy == IF query.sortBy = "" THEN "createdAt" ELSE query.sortBy
      order == IF query.order = "" THEN "desc" ELSE query.order
      found == SelectSeq(SortedIds(sortBy), LAMBDA id :
                 Contains(users[id].email, query.search))
      ordered == IF order = "asc" THEN found ELSE Reverse(found)
      last == IF Len(ordered) < skip + limit THEN Len(ordered)
                                              ELSE skip + limit
      rows == SubSeq(ordered, skip + 1, last)
  IN [users |-> [i \in 1..Len(rows) |-> <<rows[i], users[rows[i]].email>>],
      pagination |-> [page |-> page, limit |-> limit, total |-> Len(found),
                      totalPages |-> (Len(found) + limit - 1) \div limit]]

\* CacheService.getCachedUserList: the entries under the key of the hash
getCachedUserList(queryHash) ==
  IF CacheOk THEN {e \in listCache : e.key = queryHash} ELSE {}

\* CacheService.cacheUserList(queryHash, data, 300); query and seen are
\* history: the query the page was computed for, the users table then
cacheUserList(cache, queryHash, data, query) ==
  IF CacheOk
    THEN {e \in cache : e.key # queryHash}
           \cup {[key |-> queryHash, value |-> data, query |-> query,
                  seen |-> users]}
    ELSE cache

\* UserService.getUsers(query)
GetUsers(query) ==
  LET queryHash == generateQueryHash(query)
      cached == getCachedUserList(queryHash)
  IN
  /\ IF cached # {}
       THEN LET e == CHOOSE x \in cached : TRUE IN
            /\ lastCall' = [op |-> "getUsers", query |-> query,
                            result |-> e.value, fromCache |-> TRUE,
                            computedFor |-> e.query, old |-> e.seen # users]
            /\ UNCHANGED listCache
       ELSE /\ listCache' = cacheUserList(listCache, queryHash,
                                          FindPage(query), query)
            /\ lastCall' = [op |-> "getUsers", query |-> query,
                            result |-> FindPage(query), fromCache |-> FALSE,
                            computedFor |-> query, old |-> FALSE]
  /\ UNCHANGED <<readRest, userCache, getPending>>

ListQueries == {Query(1, 10, "", "", "asc"), Query(2, 10, "", "", "asc")}
CacheEmails == {"al@x.com"}
CacheIds == {"u2"}

NextUserCache ==
  \/ \E id \in CacheIds : GetUserBegin(1, id)
  \/ GetUserEnd(1)
  \/ \E id \in CacheIds : DeleteUser(id)
  \/ \E e \in CacheEmails, pw \in TokenPasswords : CreateUser(e, pw)
  \/ \E id \in CacheIds : UpdateUser(id, "AL@x.com", "")
  \/ \E e \in CacheEmails, pw \in RegPasswords :
       RegisterCall(1, e, pw, "", "")
  \/ RegisterCreate(1)
  \/ \E query \in ListQueries : GetUsers(query)

SpecUserCache == InitToken /\ [][NextUserCache]_vars

\* ------------------------------------------------------------ rateLimiter
AuthMaxRequests == 20
UsersMaxRequests == 100
\* maxRequests of the RateLimit of a controller
maxRequests(controller) ==
  IF controller = "auth" THEN AuthMaxRequests ELSE UsersMaxRequests

\* the requests one client sends in the model
MaxRequestsSent == 101

\* the variables the rate limiter leaves alone
rateRest == <<now, storeVars, cacheVars, issued, resp, histVars, regVars,
              permVars, refreshPending, ucVars, boot, sessVars>>

\* the rateLimiter middleware of a controller for a request of a client:
\* RedisService.incr, expire at the first count, 429 above maxRequests;
\* the counter is kept under `ratelimit:${identifier}`, identifier being
\* req.ip, as the limiter runs before authenticate
RateLimited(identifier, controller) ==
  LET entry == rateLimit[identifier]
      \* null, which no comparison with maxRequests exceeds, is 0 here
      currentCount == IF CacheOk THEN entry.count + 1 ELSE 0
  IN
  /\ entry.count < MaxRequestsSent
  /\ rateLimit' =
       IF CacheOk
         THEN [rateLimit EXCEPT ![identifier] =
                 [count |-> entry.count + 1, expires |-> TRUE,
                  sent |-> [c \in RateControllers |->
                              entry.sent[c]
                                + (IF c = controller THEN 1 ELSE 0)]]]
         ELSE rateLimit
  /\ lastCall' = [op |-> "rateLimit", identifier |-> identifier,
                  controller |-> controller, cacheOk |-> CacheOk,
                  status |-> IF currentCount > maxRequests(controller)
                               THEN 429 ELSE 200,
                  sent |-> rateLimit'[identifier].sent[controller]]
  /\ UNCHANGED rateRest

\* the window of a counter ends: Redis drops the key
WindowEnds(identifier) ==
  /\ rateLimit[identifier].expires
  /\ rateLimit' = [rateLimit EXCEPT ![identifier] = NoCount]
  /\ UNCHANGED <<rateRest, lastCall>>

RateClients == {"ip1"}

NextRate ==
  \/ RedisDown
  \/ RedisUp
  \/ \E i \in RateClients, c \in RateControllers : RateLimited(i, c)
  \/ \E i \in RateClients : WindowEnds(i)

SpecRate == InitToken /\ [][NextRate]_vars

\* ----------------------------------------------------------------- startup
\* the variables start-up leaves alone
bootRest == <<now, storeVars, refreshStore, blacklist, issued, resp, histVars,
              regVars, permVars, callVars, ucVars, rateLimit, sessVars>>

\* config/database.ts: the promise of prisma.$connect() resolves
DbConnected ==
  /\ boot.db = "pending" /\ ~boot.exited
  /\ boot' = [boot EXCEPT !.db = "connected"]
  /\ UNCHANGED <<bootRest, redisClient, redisReachable>>

\* config/database.ts: the promise rejects, the catch calls process.exit(1)
DbConnectFailed ==
  /\ boot.db = "pending" /\ ~boot.exited
  /\ boot' = [boot EXCEPT !.db = "failed", !.exited = TRUE, !.listening = FALSE]
  /\ UNCHANGED <<bootRest, redisClient, redisReachable>>

\* initRedis: connect() wins the race against the timeout of five seconds
InitRedisConnected ==
  /\ boot.redis = "pending" /\ ~boot.exited
  /\ redisReachable
  /\ redisClient' = TRUE
  /\ boot' = [boot EXCEPT !.redis = "connected"]
  /\ UNCHANGED <<bootRest, redisReachable>>

\* a catch block that keeps the client it created
initRedisCatch_keep == TRUE

\* the catch block of initRedis: redisClient = null
initRedisCatch == FALSE

\* initRedis: connect() rejects or the timeout comes first
InitRedisFailed ==
  /\ boot.redis = "pending" /\ ~boot.exited
  /\ redisClient' = initRedisCatch
  /\ boot' = [boot EXCEPT !.redis = "failed"]
  /\ UNCHANGED <<bootRest, redisReachable>>

\* startServer after initRedis has returned: createApp, server.listen
Listen ==
  /\ boot.redis # "pending" /\ ~boot.listening /\ ~boot.exited
  /\ boot' = [boot EXCEPT !.listening = TRUE]
  /\ UNCHANGED <<bootRest, redisClient, redisReachable>>

\* the Redis server becomes reachable or unreachable
RedisServer(up) ==
  /\ redisReachable # up
  /\ redisReachable' = up
  /\ UNCHANGED <<bootRest, redisClient, boot>>

\* the process serves requests
Serving == boot.listening /\ ~boot.exited

InitBoot ==
  \E up \in BOOLEAN : InitBase("admin", ROLE_PERMISSIONS, FALSE, up, Starting)

NextBoot ==
  \/ DbConnected
  \/ DbConnectFailed
  \/ InitRedisConnected
  \/ InitRedisFailed
  \/ Listen
  \/ \E up \in BOOLEAN : RedisServer(up)
  \/ Tick
  \/ \E e \in TokenLoginEmails, pw \in TokenPasswords :
       Serving /\ Login(e, pw)
  \/ \E t \in issued : Serving /\ Logout(t)

SpecBoot == InitBoot /\ [][NextBoot]_vars

\* ------------------------------------- refresh and the Credential Store
\* POST /auth/refresh, recording the token presented, what verifyToken and
\* getRefreshToken answered, the subject's row at that moment and the tokens
\* returned
RefreshTracked(token) ==
  /\ RefreshBody(token)
  /\ lastCall' =
       [op |-> "refreshToken", presented |-> token,
        valid |-> verifyToken(token),
        stored |-> getRefreshToken(token.userId),
        subject |-> users[token.userId],
        ok |-> refreshTokenError(token) = "",
        minted |-> IF refreshTokenError(token) = ""
                     THEN generateTokens(Payload(token), now)
                     ELSE [accessToken |-> NullTok, refreshToken |-> NullTok]]

StaleRoles == {"user"}

NextStale ==
  \/ Tick
  \/ RedisDown
  \/ RedisUp
  \/ \E e \in TokenLoginEmails, pw \in TokenPasswords : Login(e, pw)
  \/ \E t \in issued : RefreshTracked(t)
  \/ DeleteUser("u1")
  \/ \E r \in StaleRoles : StoreSetRole("u1", r)
  \/ StoreSetActive("u1", FALSE)

SpecStale == InitToken /\ [][NextStale]_vars

\* ---------------------------------------------------------- SessionService
\* the session ids removed and not created again since
Removed == IF lastCall.op = "session" THEN lastCall.removed ELSE {}

\* what the session calls leave alone
sessRest == <<now, storeVars, cacheVars, issued, resp, histVars, regVars,
              permVars, ucVars, rateLimit, boot, refreshPending>>

\* SessionService.getSession: RedisService.getJSON, null when unavailable
getSession(sessionId) ==
  IF CacheOk THEN sessions[sessionId] ELSE NoSession

\* RedisService.setJSON of a session
setSession(store, sessionId, session) ==
  IF CacheOk THEN [store EXCEPT ![sessionId] = session] ELSE store

\* RedisService.del of a session
delSession(store, sessionId) ==
  IF CacheOk THEN [store EXCEPT ![sessionId] = NoSession] ELSE store

\* SessionService.createSession
CreateSession(sessionId, userId) ==
  /\ sessions' = setSession(sessions, sessionId,
                   [present |-> TRUE, userId |-> userId, lastAccessed |-> now])
  /\ lastCall' = [op |-> "session", call |-> "createSession",
                  id |-> sessionId, found |-> FALSE, result |-> CacheOk,
                  wrote |-> CacheOk,
                  removed |-> IF CacheOk THEN Removed \ {sessionId}
                                         ELSE Removed]
  /\ UNCHANGED <<sessRest, sessPending>>

\* SessionService.updateSessionAccess up to the answer of getSession
UpdateSessionBegin(p, sessionId) ==
  /\ ~sessPending[p].active
  /\ sessPending' = [sessPending EXCEPT
                       ![p] = [active |-> TRUE, id |-> sessionId,
                               session |-> getSession(sessionId)]]
  /\ UNCHANGED <<sessRest, sessions, lastCall>>

\* the rest of SessionService.updateSessionAccess: false for a session not
\* found, else setJSON of the session read with a new lastAccessed
UpdateSessionEnd(p) ==
  LET call == sessPending[p] IN
  /\ call.active
  /\ sessPending' = [sessPending EXCEPT ![p] = NoSessCall]
  /\ IF ~call.session.present
       THEN /\ UNCHANGED sessions
            /\ lastCall' = [op |-> "session", call |-> "updateSessionAccess",
                            id |-> call.id, found |-> FALSE,
                            result |-> FALSE, wrote |-> FALSE,
                            removed |-> Removed]
       ELSE /\ sessions' = setSession(sessions, call.id,
                             [call.session EXCEPT !.lastAccessed = now])
            /\ lastCall' = [op |-> "session", call |-> "updateSessionAccess",
                            id |-> call.id, found |-> TRUE,
                            result |-> CacheOk, wrote |-> CacheOk,
                            removed |-> Removed]
  /\ UNCHANGED sessRest

\* SessionService.deleteSession
DeleteSession(sessionId) ==
  /\ sessions' = delSession(sessions, sessionId)
  /\ lastCall' = [op |-> "session", call |-> "deleteSession",
                  id |-> sessionId, found |-> FALSE, result |-> CacheOk,
                  wrote |-> CacheOk,
                  removed |-> IF CacheOk THEN Removed \cup {sessionId}
                                         ELSE Removed]
  /\ UNCHANGED <<sessRest, sessPending>>

\* SessionService.deleteUserSessions: deleteSession for every key whose
\* session belongs to userId
DeleteUserSessions(userId) ==
  LET keys == IF CacheOk THEN {i \in SessionIds : sessions[i].present} ELSE {}
      mine == {i \in keys : getSession(i).userId = userId}
  IN
  /\ sessions' = [i \in SessionIds |->
                    IF i \in mine THEN NoSession ELSE sessions[i]]
  /\ lastCall' = [op |-> "session", call |-> "deleteUserSessions",
                  id |-> userId, found |-> mine # {},
                  result |-> mine # {}, wrote |-> mine # {},
                  removed |-> Removed \cup mine]
  /\ UNCHANGED <<sessRest, sessPending>>

SessionUsers == {"u1", "u2"}

NextSessions ==
  \/ \E i \in SessionIds, u \in SessionUsers : CreateSession(i, u)
  \/ \E p \in Procs, i \in SessionIds : UpdateSessionBegin(p, i)
  \/ \E p \in Procs : UpdateSessionEnd(p)
  \/ \E i \in SessionIds : DeleteSession(i)
  \/ \E u \in SessionUsers : DeleteUserSessions(u)
  \/ Tick

SpecSessions == InitToken /\ [][NextSessions]_vars

\* ------------------------------------------------------------------ claims

\* C1: with the cache reachable, a token for which logout has completed is
\* rejected by authenticate with 401 'Token has been revoked' as long as it
\* has not expired, and every other issued token that has not expired still
\* authenticates.
C1_RevokedUntilExpiry ==
  /\ \A t \in loggedOut :
       (CacheOk /\ now < t.exp) =>
         authenticate(t) = Reject(401, "Token has been revoked")
  /\ \A t \in issued \ loggedOut :
       verifyToken(t) => authenticate(t) = Next0

\* a gate request was answered 'revoked' while another unexpired token of
\* the same subject, not presented to logout, authenticates
C1_Witness ==
  /\ resp.op = "gate" /\ resp.status = 401
  /\ resp.message = "Token has been revoked"
  /\ \E s \in loggedOut, t \in issued \ loggedOut :
       /\ s.userId = t.userId
       /\ now < s.exp
       /\ authenticate(s).status = 401
       /\ authenticate(t) = Next0

\* C2: with the cache reachable, the refresh token that was current when a
\* subject logged out is rejected by refresh until that subject logs in again.
C2_RefreshRevokedOnLogout ==
  \A t \in priorRefresh : CacheOk => refreshTokenError(t) # ""

\* C3: with the cache reachable, a refresh token for which refresh has
\* succeeded is rejected by every later refresh.
C3_OldRefreshRejected ==
  \A t \in superseded : CacheOk => refreshTokenError(t) # ""

\* what the Permission Oracle decides from the store alone: the subject
\* exists and its role is the bypass role or is granted one of the pairs
StoreAllowsAny(userId, permissions) ==
  /\ userId \in UserIds
  /\ users[userId].present
  /\ \/ users[userId].role = "super_admin"
     \/ \E i \in 1..Len(permissions) :
          <<users[userId].role, permissions[i][1], permissions[i][2]>>
            \in grants

\* C4: for a token that authenticates, the gate of a route lets the request
\* pass exactly when the subject's current role and grants in the store
\* satisfy the route's requirement, whatever role name the token carries.
C4_GateFollowsStore ==
  \A t \in issued, r \in Routes :
    authenticate(t) = Next0 =>
      (Gate(t, r) = Next0 <=> StoreAllowsAny(t.userId, RoutePermissions(r)))

RegDone == regLog.service /\ ~regLog.active /\ regLog # NoCall

\* C5: in every reachable state each subject's stored secret is a one-way
\* hash of the supplied secret, never the plaintext: for subjects written by
\* AuthService.register, UserService.createUser and UserService.updateUser.
C5_SecretsHashed ==
  \A u \in UserIds : users[u].present => users[u].password[1] = "bcrypt"

\* C6: AuthService.register creates a subject with a role other than 'user'
\* only when a requester id is supplied and the requester holds user:create
\* (or is super_admin) at the time of the call; without roleName the new role
\* is 'user'; a requester lacking user:create gets InsufficientPermission, a
\* non-existent role gets RoleNotFound, and neither creates a subject. The
\* failures are taken in the order register tests them: duplicate email,
\* requester, permission, role.
C6_RegisterRole ==
  RegDone =>
    /\ (regLog.created /\ regLog.assigned # "user") =>
         /\ regLog.requester # ""
         /\ regLog.held
         /\ regLog.assigned = regLog.roleName
    /\ (regLog.created /\ regLog.roleName = "") => regLog.assigned = "user"
    /\ (~regLog.taken /\ regLog.roleName # "" /\ regLog.requester # ""
          /\ ~regLog.held) =>
         (regLog.error = E_PERM /\ ~regLog.created)
    /\ (~regLog.taken /\ regLog.roleName # "" /\ regLog.requester # ""
          /\ regLog.held /\ regLog.roleName \notin RoleNames) =>
         (regLog.error = E_ROLE /\ ~regLog.created)

\* a requester holding user:create registered a subject with the role admin,
\* and the store holds that subject
C6_Witness ==
  /\ RegDone
  /\ regLog.created
  /\ regLog.held
  /\ regLog.assigned = "admin"
  /\ \E u \in UserIds \ SeededIds :
       users[u].present /\ users[u].role = "admin"

\* C7: POST /auth/register with a valid bearer token of a subject holding
\* user:create and an existing role name returns 201 and creates the subject
\* with that role; the same request from a requester without user:create
\* returns 403.
C7_HttpRegisterRole ==
  (regLog.http /\ ~regLog.active /\ regLog.roleName \in RoleNames
     /\ ~regLog.takenAtEnd) =>
    IF regLog.bearer
      THEN regLog.status = 201 /\ regLog.created
             /\ regLog.assigned = regLog.roleName
      ELSE regLog.status = 403 /\ ~regLog.created

\* C8: login fails with one and the same error (message and status 401) when
\* no subject has the email, when the account is inactive and when the secret
\* does not match.
C8_LoginErrorsAlike ==
  (resp.op = "login" /\ resp.status # 200) =>
    (resp.status = 401 /\ resp.message = "Invalid email or password")

\* C9: the lowercase-normalized email is unique over all subjects, and a
\* registration whose email equals an existing subject's email in any casing
\* fails with 'User with this email already exists' (HTTP 409) and creates
\* nothing, also when registrations with the same email run concurrently.
C9_DuplicateEmail ==
  /\ \A u, v \in UserIds :
       (u # v /\ users[u].present /\ users[v].present) =>
         toLowerCase(users[u].email) # toLowerCase(users[v].email)
  /\ (RegDone /\ regLog.takenAtEnd) =>
       /\ regLog.error = E_DUP
       /\ regLog.http => regLog.status = 409
       /\ ~regLog.created

\* C11: denial is the default: hasPermission(subject, r, a) is false whenever
\* the subject does not exist, has no role, or its role is not super_admin
\* and has no grant equal to exactly (r, a); a failed store lookup yields
\* false too, never true.
C11_DenialDefault ==
  lastCall.op = "hasPermission" =>
    LET st == lastCall.store IN
    /\ (\/ ~st.exists
        \/ st.role = ""
        \/ /\ st.role # "super_admin"
           /\ <<lastCall.resource, lastCall.action>> \notin st.granted)
         => ~lastCall.result
    /\ lastCall.result =>
         \/ lastCall.dbOk1 /\ st.role = "super_admin"
         \/ lastCall.dbOk2
              /\ <<lastCall.resource, lastCall.action>> \in st.granted

\* hasPermission answered false for an existing subject whose role is granted
\* another action of the same resource
C11_Witness ==
  /\ lastCall.op = "hasPermission"
  /\ lastCall.dbOk1 /\ lastCall.dbOk2
  /\ lastCall.store.exists
  /\ lastCall.store.role \notin {"", "super_admin"}
  /\ \E q \in lastCall.store.granted :
       q[1] = lastCall.resource /\ q[2] # lastCall.action
  /\ <<lastCall.resource, lastCall.action>> \notin lastCall.store.granted
  /\ ~lastCall.result

Has(steps, x) == \E i \in 1..Len(steps) : steps[i] = x

\* C13: a request to a protected route is decided in this order: (1) missing
\* or non-Bearer header gives 401; (2) a blacklisted token gives 401
\* 'revoked', before signature verification; (3) an invalid or expired token
\* gives 401; (4) only then is the payload attached to the request; (5) only
\* then is the route's permission requirement evaluated (any-of, all-of with
\* requireAll), giving 403 if unmet; the handler runs only when every step
\* passed.
C13_GateOrder ==
  lastCall.op = "gate" =>
    LET c == lastCall
        present == c.token # NullTok
        authed == present /\ ~c.blacklisted /\ c.valid
    IN
    /\ ~present => (c.status = 401 /\ c.message = "No token provided")
    /\ (present /\ c.blacklisted) =>
         /\ c.status = 401 /\ c.message = "Token has been revoked"
         /\ ~Has(c.steps, "verify")
    /\ (present /\ ~c.blacklisted /\ ~c.valid) =>
         (c.status = 401 /\ c.message = "Invalid or expired token")
    /\ Has(c.steps, "attach") <=> authed
    /\ Has(c.steps, "permission") <=> authed
    /\ (authed /\ ~c.met) => c.status = 403
    /\ Has(c.steps, "handler") <=> (authed /\ c.met)

\* C14: the cache is fail-open: while it is unreachable isTokenBlacklisted is
\* false for every token, login with correct credentials succeeds, a gate
\* check with a valid access token succeeds, and refresh succeeds for every
\* refresh token whose signature and expiry are valid; no operation fails
\* because the cache is down. (Every login of SpecCache presents correct
\* credentials.)
C14_FailOpen ==
  /\ [](~CacheOk =>
          /\ \A t \in Presentable \cup {GarbageTok} : ~isTokenBlacklisted(t)
          /\ \A t \in issued :
               verifyToken(t) =>
                 /\ authenticate(t) = Next0
                 /\ Gate(t, "GET /users") = Next0
                 /\ refreshTokenError(t) = "")
  /\ [][(~CacheOk /\ resp' # resp) =>
          /\ resp'.op = "login" =>
               (resp'.status = 200 /\ Cardinality(issued') >= 2)
          /\ resp'.message \notin {"Token has been revoked",
                                   "Invalid refresh token"}]_vars

\* with the cache down a refresh has succeeded while a token with a live
\* blacklist entry authenticates
C14_Witness ==
  /\ ~CacheOk
  /\ resp.op = "refresh" /\ resp.status = 200
  /\ \E e \in blacklist :
       now < e.expiresAt /\ authenticate(e.token) = Next0

\* C15: with the cache reachable and an entry stored for the subject, at most
\* one refresh token per subject is accepted by refresh at any time; after a
\* second login of the same subject the refresh token returned by the first
\* login is rejected by refresh.
C15_SingleRefreshToken ==
  CacheOk =>
    /\ \A u \in SeededIds :
         getRefreshToken(u) # NullTok =>
           \A t \in issued :
             (t.userId = u /\ refreshTokenError(t) = "") =>
               t = getRefreshToken(u)
    /\ (lastCall.op = "login" /\ lastCall.previous # NullTok
          /\ getRefreshToken(lastCall.userId) # NullTok) =>
         refreshTokenError(lastCall.previous) # ""

\* C16: when two refresh calls presenting the same current refresh token
\* interleave and both succeed, then once both have completed the stored
\* refresh token is the one minted by the call that stored last, and the
\* refresh token minted by the other call is rejected by a later refresh
\* (cache reachable).
C16_LastWriterWins ==
  (lastCall.op = "race" /\ CacheOk /\ verifyToken(lastCall.last)) =>
    /\ getRefreshToken(lastCall.userId) = lastCall.last
    /\ refreshTokenError(lastCall.other) # ""

\* C17: logout blacklists the presented access token with a TTL of exactly
\* exp - now seconds when that is positive, so no blacklist entry outlives
\* the expiry of its token; when the token is already expired or cannot be
\* decoded, nothing is blacklisted and logout still completes without error.
C17_BlacklistTtl ==
  /\ \A e \in blacklist : e.expiresAt = e.token.exp
  /\ lastCall.op = "logout" =>
       LET t == lastCall.token IN
       /\ lastCall.error = ""
       /\ (lastCall.cacheOk /\ Decodes(t) /\ lastCall.at < t.exp
             /\ now < t.exp) =>
            [token |-> t, expiresAt |-> t.exp] \in blacklist
       /\ (~Decodes(t) \/ t.exp <= lastCall.at) =>
            ~\E e \in blacklist : e.token = t

\* a logout one second after the token was minted has left an entry that
\* ends with the token, and a logout of an undecodable token left none
C17_Witness ==
  /\ lastCall.op = "logout"
  /\ lastCall.token \in issued
  /\ lastCall.at > lastCall.token.iat
  /\ lastCall.at < lastCall.token.exp
  /\ [token |-> lastCall.token, expiresAt |-> lastCall.token.exp]
       \in blacklist
  /\ ~\E e \in blacklist : e.token = GarbageTok

\* C18: granting is idempotent: assignPermissionsToRole called twice with
\* the same pairs leaves exactly one grant record per (role, permission) and
\* raises no error on the second call; in every reachable state there is at
\* most one grant per (role, permission) pair.
C18_GrantIdempotent ==
  /\ \A k \in BagToSet(grantRows) : CopiesIn(k, grantRows) = 1
  /\ (lastCall.op = "assign" /\ lastCall.repeat) =>
       /\ lastCall.error = ""
       /\ grantRows = lastCall.before
       /\ \A i \in 1..Len(lastCall.permissions) :
            LET name == PermissionName(lastCall.permissions[i][1],
                                       lastCall.permissions[i][2])
            IN permissionByName(permissionRows, name) # {} =>
                 CopiesIn(<<lastCall.role, name>>, grantRows) = 1

\* user:delete, which the seed does not grant to the role user, has been
\* assigned to it twice in a row
C18_Witness ==
  /\ lastCall.op = "assign"
  /\ lastCall.repeat
  /\ lastCall.role = "user"
  /\ lastCall.permissions = << <<"user", "delete">> >>
  /\ CopiesIn(<<"user", "user:delete">>, grantRows) = 1
  /\ <<"user", "user", "delete">> \in grants

\* C19: no two Permission records have the same (resource, action) pair, and
\* the name of every Permission record equals 'resource:action' of its own
\* pair, after any sequence of createPermission, createModulePermissions and
\* seeding.
C19_PermissionIdentity ==
  /\ \A r \in permissionRows : r.name = PermissionName(r.resource, r.action)
  /\ \A r1 \in permissionRows, r2 \in permissionRows :
       (r1.resource = r2.resource /\ r1.action = r2.action) => r1 = r2

\* C20: GET /api/permissions requires permission:read: an authenticated
\* subject that is not super_admin and does not hold permission:read is
\* answered 403, and a subject holding permission:read is allowed.
C20_ListNeedsPermissionRead ==
  (/\ lastCall.op = "gate"
   /\ lastCall.permissions = GetAllPermissionsGate
   /\ lastCall.token # NullTok
   /\ lastCall.valid
   /\ ~lastCall.blacklisted
   /\ lastCall.facts.exists) =>
    /\ (/\ lastCall.facts.role # "super_admin"
        /\ lastCall.token.role # "super_admin"
        /\ <<"permission", "read">> \notin lastCall.facts.granted) =>
         lastCall.status = 403
    /\ <<"permission", "read">> \in lastCall.facts.granted =>
         lastCall.status = 200

\* C21: with the grants of ROLE_PERMISSIONS seeded, an authenticated request
\* to a /api/users endpoint passes the gate exactly when the access matrix
\* allows the endpoint to the role of the requesting subject; every other
\* role/endpoint combination gets 403.
C21_AccessMatrix ==
  \A t \in AccessTokens, r \in Routes :
    authenticate(t) = Next0 =>
      /\ Gate(t, r) = Next0 <=> AccessMatrix(RoleOf(t.userId), r)
      /\ Gate(t, r) # Next0 => Gate(t, r).status = 403

\* C22: after deleteUser(id) has returned true, every getUserById(id) that
\* starts later returns null, whatever the user cache held before the delete
\* and also when a getUserById(id) was in flight during the delete.
C22_DeletedStaysGone ==
  (lastCall.op = "getUserById" /\ lastCall.afterDelete) =>
    ~lastCall.result.hit

\* C23: cached user data is invalidated on updates: once an operation that
\* creates, changes or deletes a user (register, createUser, updateUser,
\* deleteUser) has completed, getUsers and getUserById do not return a
\* result that was cached before that operation.
C23_InvalidatedOnWrite ==
  (lastCall.op \in {"getUsers", "getUserById"} /\ lastCall.fromCache) =>
    ~lastCall.old

\* C24: the RateLimit of a controller admits at most maxRequests requests
\* per client to that controller in one window and answers the further ones
\* with 429; requests the client sends to other controllers do not count,
\* and when Redis is unavailable every request is admitted.
C24_RateLimitPerController ==
  lastCall.op = "rateLimit" =>
    IF lastCall.cacheOk
      THEN lastCall.status = 429
             <=> lastCall.sent > maxRequests(lastCall.controller)
      ELSE lastCall.status = 200

\* C25: the HTTP server begins to listen only after the database connection
\* has succeeded: when the initial database connection fails the process
\* exits without ever having served a request; a failed or timed-out Redis
\* connection does not prevent the server from listening.
C25_ListenAfterDatabase ==
  /\ boot.listening => boot.db = "connected"
  /\ boot.db = "failed" => (boot.exited /\ resp.op = "none")

\* C26: access and refresh tokens are not interchangeable: authenticate
\* rejects every refresh token presented as a bearer credential and refresh
\* rejects every access token presented as a refresh token, whether a refresh
\* entry is stored, none is stored or the cache is unreachable.
C26_KindsNotInterchangeable ==
  /\ \A t \in RefreshTokens : authenticate(t).status # 0
  /\ \A t \in AccessTokens : refreshTokenError(t) # ""

\* C27: refresh never reads the Credential Store: whether it succeeds depends
\* only on the presented token and the cache (the token verifies, and the
\* entry stored for its subject is absent, unreachable or the token itself),
\* and the tokens it returns carry the userId, email and role of the
\* presented token, also when the subject was deleted, deactivated or given
\* another role after login.
C27_RefreshIgnoresStore ==
  lastCall.op = "refreshToken" =>
    /\ lastCall.ok = (lastCall.valid
                      /\ lastCall.stored \in {NullTok, lastCall.presented})
    /\ lastCall.ok =>
         /\ Payload(lastCall.minted.accessToken) = Payload(lastCall.presented)
         /\ Payload(lastCall.minted.refreshToken) = Payload(lastCall.presented)
         /\ {lastCall.minted.accessToken, lastCall.minted.refreshToken}
              \subseteq issued

\* a refresh succeeded for a subject that was no longer in the store
C27_Witness ==
  /\ lastCall.op = "refreshToken"
  /\ lastCall.ok
  /\ ~lastCall.subject.present
  /\ lastCall.presented.role = "admin"
  /\ lastCall.minted.accessToken.role = "admin"

\* C28: UserService.getUsers(q) returns the page computed for its own query
\* q: two queries that differ in page, limit, search, sortBy or order never
\* share a cache entry, CacheService.generateQueryHash gives them different
\* keys.
C28_OwnQueryOwnEntry ==
  lastCall.op = "getUsers" => lastCall.computedFor = lastCall.query

\* C29: a session removed by deleteSession or deleteUserSessions stays absent
\* until createSession is called for its id again, also when
\* updateSessionAccess for that id runs concurrently with the delete; and
\* updateSessionAccess on an absent session returns false and writes nothing.
C29_RemovedStaysAbsent ==
  /\ \A i \in Removed : ~sessions[i].present
  /\ (lastCall.op = "session" /\ lastCall.call = "updateSessionAccess"
      /\ ~lastCall.found) => (~lastCall.result /\ ~lastCall.wrote)

\* C30: when initRedis fails or times out at startup the process stays
\* fail-open for the rest of its lifetime: isRedisAvailable() remains false,
\* the cache operations return their defaults and store nothing, and no logout
\* of that process blacklists a token, even when Redis becomes reachable
\* later.
C30_DegradedForLife ==
  boot.redis = "failed" =>
    /\ ~redisClient
    /\ ~CacheOk
    /\ blacklist = {}
    /\ \A u \in UserIds : refreshStore[u] = NoEntry
    /\ \A t \in issued : ~isTokenBlacklisted(t)

\* initRedis failed, Redis is reachable now, a logout was answered 200 and
\* nothing is blacklisted
C30_Witness ==
  /\ boot.redis = "failed"
  /\ redisReachable
  /\ resp.op = "logout" /\ resp.status = 200
  /\ blacklist = {}

====
